---------------------------- MODULE Spec2Model ----------------------------
(***************************************************************************)
(* WriteBoost (Windows build): the selection-capture, dispatch and         *)
(* result-delivery pipeline.                                               *)
(*                                                                         *)
(*   TextOperationsManager  get_selected_text, process_option,             *)
(*                          process_option_thread, replace_text            *)
(*   HotkeyManager          on_hotkey_pressed, _show_popup                 *)
(*   GeminiProvider         get_response, cancel                           *)
(*   ConversationManager    process_followup_question                      *)
(*   WritingToolApp         check_trigger_spam, exit_app                   *)
(*   ResponseWindow         set_text, send_message, closeEvent             *)
(*                                                                         *)
(* Text is a sequence of one-character strings, so that strip(), split(),  *)
(* rstrip("\n"), len() and slicing are computed as Python computes them.   *)
(* Time is counted in tenths of a second.                                  *)
(*                                                                         *)
(* Threads: the primary (Qt) thread runs the slots on_hotkey_pressed,      *)
(* _show_popup, process_option, send_message, set_text and closeEvent one  *)
(* at a time; every dispatched request runs on a thread of its own, and    *)
(* replace_text runs on that thread (GeminiProvider.get_response calls it  *)
(* directly).                                                              *)
(***************************************************************************)
EXTENDS Integers, Sequences, FiniteSets, TLC

VARIABLES
    \* ---- system clipboard and the foreign application
    clipboard,        \* text on the system clipboard
    selection,        \* text selected in the foreign application
    app_delay,        \* clipboard reads of a capture that come before the foreign
                      \* application has served the copy chord (0: it is prompt)
    pending_copy,     \* a copy chord the foreign application has not served yet
    pasted,           \* texts the foreign application received by paste chords
    \* ---- TextOperationsManager.get_selected_text (runs on the primary thread)
    cap_pc,           \* "idle" | "clear" | "chord" | "read" | "returned"
    max_retries,      \* argument of the running call
    attempt,          \* loop variable
    clipboard_backup, \* local of get_selected_text
    selected_text,    \* local of get_selected_text (line 57)
    cap_result,       \* value returned by the last call
    cap_obs,          \* observation of the running call: clipboard at entry and
                      \* at return, copy chords synthesized, clipboard reads made,
                      \* the selection and delay of the foreign application at
                      \* entry, and the number of calls so far
    \* ---- WritingToolApp.check_trigger_spam
    now,              \* time.time(), in tenths of a second
    recent_triggers,  \* self.recent_triggers
    spam_log,         \* observation: <<time of call, value returned>> per call
    \* ---- application state
    app_running,      \* FALSE once exit_app has issued quit()
    hotkey_listener,  \* HotkeyManager.hotkey_listener is running
    close_requested,  \* GeminiProvider.close_requested
    output_queue,     \* TextOperationsManager.output_queue
    current_response_window, \* app.current_response_window: Unset | None | window
    popup_window,     \* HotkeyManager.popup_window: None | [selected_text]
    ui_pc,            \* what the primary thread is inside of: "idle",
                      \* "popup1" / "popup2" (_show_popup, first / second
                      \* capture), "exiting" (exit_app before quit()), "exited"
    windows,          \* ResponseWindow objects, by creation order
    ui_queue,         \* queued invocations (Qt.QueuedConnection) for the primary
                      \* thread, oldest first
    requests,         \* the worker threads started so far, by creation order
    hotkey_obs,       \* observation of the last hotkey activation
    \* ---- a ChatMessageManager on its own
    chat_history,     \* self.chat_history
    chat_calls,       \* observation: <<method, argument>> per call made on it
    \* ---- global hotkey registration
    shortcut,         \* app.config["shortcut"]
    hooks,            \* the chords of the pynput listeners started and not
                      \* stopped, oldest first; the last is the one
                      \* HotkeyManager.hotkey_listener refers to when it runs
    reg_obs           \* observation of the last registration: who ran it, for
                      \* which chord, whether it raised, and whether a
                      \* listener was running when it began

capVars == <<cap_pc, max_retries, attempt, clipboard_backup, selected_text,
             cap_result, cap_obs>>
envVars == <<clipboard, selection, app_delay, pending_copy, pasted>>
spamVars == <<now, recent_triggers, spam_log>>
chatVars == <<chat_history, chat_calls>>
hookVars == <<shortcut, hooks, reg_obs>>
appVars == <<app_running, hotkey_listener, close_requested, output_queue,
             current_response_window, popup_window, ui_pc,
             windows, ui_queue, requests, hotkey_obs>>
vars == <<clipboard, selection, app_delay, pending_copy, pasted, cap_pc,
          max_retries, attempt, clipboard_backup, selected_text, cap_result,
          cap_obs, now, recent_triggers,
          spam_log, app_running, hotkey_listener, close_requested,
          output_queue, current_response_window, popup_window,
          ui_pc, windows, ui_queue, requests, hotkey_obs,
          chat_history, chat_calls, shortcut, hooks, reg_obs>>

-----------------------------------------------------------------------------
(* Bounds of the model.                                                    *)

\* worker threads (requests) started in one behaviour
MaxReq == 2
\* ResponseWindow objects created in one behaviour
MaxWin == 2
\* hotkey activations in one behaviour
MaxHotkeys == 3
\* calls of get_selected_text in one behaviour of SpecCapture
MaxCaptures == 2
\* largest max_retries argument tried
MaxRetriesArg == 3
\* calls of check_trigger_spam in one behaviour of SpecSpam
MaxSpamCalls == 3
\* last instant of the clock, in tenths of a second
MaxTime == 25

-----------------------------------------------------------------------------
(* Text.                                                                   *)

\* The characters str.strip() and str.split() treat as whitespace.
Whitespace == {" ", "\n", "\t"}

\* "".join(s.split()): s without any whitespace.
RemoveWhitespace(s) == SelectSeq(s, LAMBDA c : c \notin Whitespace)

RECURSIVE LStrip(_)
LStrip(s) == IF s # <<>> /\ Head(s) \in Whitespace THEN LStrip(Tail(s)) ELSE s

RECURSIVE RStrip(_)
RStrip(s) ==
    IF s # <<>> /\ s[Len(s)] \in Whitespace THEN RStrip(SubSeq(s, 1, Len(s) - 1)) ELSE s

\* s.strip()
Strip(s) == LStrip(RStrip(s))

RECURSIVE RStripNewlines(_)
\* s.rstrip("\n")
RStripNewlines(s) ==
    IF s # <<>> /\ s[Len(s)] = "\n" THEN RStripNewlines(SubSeq(s, 1, Len(s) - 1)) ELSE s

\* s[:n]
Slice(s, n) == SubSeq(s, 1, IF n < Len(s) THEN n ELSE Len(s))

\* error_message of replace_text
ERROR_MESSAGE == <<"E","R","R","O","R","_","T","E","X","T","_","I","N","C","O","M","P","A","T","I","B","L","E","_","W","I","T","H","_","R","E","Q","U","E","S","T">>

T_Empty == <<>>
T_Blank == <<" ">>
T_Hello == <<"H","e","l","l","o"," ","w","o","r","l","d">>
T_HelloNL == <<"H","e","l","l","o"," ","w","o","r","l","d","\n">>
T_Prefix == <<"E","R","R","O","R","_","T","E","X","T","_","I","N","C","O","M","P","A","T","I","B","L","E">>
T_Spaced == <<"E"," ","R"," ","R"," ","O"," ","R"," ","_"," ","T"," ","E"," ","X"," ","T"," ","_"," ","I"," ","N"," ","C"," ","O"," ","M"," ","P"," ","A"," ","T"," ","I"," ","B"," ","L"," ","E">>
T_PaddedSentinel == <<" ">> \o ERROR_MESSAGE
T_Orig == <<"o","r","i","g">>
T_Sel == <<"s","e","l">>
T_Question == <<"w","h","y","?">>

-----------------------------------------------------------------------------
(* The system clipboard and the foreign application.                       *)

\* What pyperclip.paste() can find on the clipboard before a capture.
ClipboardTexts == {T_Empty, T_Blank, T_Orig}

\* What the user can have selected in the foreign application.
SelectionTexts == {T_Empty, T_Blank, T_Sel}

\* The foreign application is due to have served the copy chord: app_delay
\* reads of the running capture have gone by.
CopyDue == pending_copy /\ Len(cap_obs.reads) >= app_delay

\* The foreign application serves a copy chord: it puts its selection on the
\* clipboard, and leaves the clipboard alone when nothing is selected.  It
\* may do so late, also after the capture that sent the chord has returned.
AppCopy ==
    /\ CopyDue
    /\ pending_copy' = FALSE
    /\ clipboard' = IF selection # <<>> THEN selection ELSE clipboard
    /\ UNCHANGED <<selection, app_delay, pasted>>
    /\ UNCHANGED <<capVars, spamVars, appVars, chatVars, hookVars>>

\* The user selects other text (or nothing), in an application that is
\* prompt or slow, while no capture is running.
UserSelect(s, d) ==
    /\ cap_pc \in {"idle", "returned"}
    /\ ~pending_copy
    /\ <<s, d>> # <<selection, app_delay>>
    /\ selection' = s
    /\ app_delay' = d
    /\ UNCHANGED <<clipboard, pending_copy, pasted>>
    /\ UNCHANGED <<capVars, spamVars, appVars, chatVars, hookVars>>

-----------------------------------------------------------------------------
(* TextOperationsManager.get_selected_text, statement by statement.        *)

\* Line 31: clipboard_backup = pyperclip.paste(); line 33: the loop starts.
GetSelectedTextCall(n) ==
    /\ max_retries' = n
    /\ clipboard_backup' = clipboard
    /\ attempt' = 0
    /\ selected_text' = <<>>
    /\ cap_obs' = [entry |-> clipboard, chords |-> 0, reads |-> <<>>,
                   exit |-> <<>>, calls |-> cap_obs.calls + 1,
                   sel |-> selection, delay |-> app_delay]
    /\ cap_pc' = IF n > 0 THEN "clear" ELSE "final"
    /\ UNCHANGED cap_result

\* Line 37: self.clear_clipboard().
CaptureClear ==
    /\ cap_pc = "clear"
    /\ clipboard' = <<>>
    /\ cap_pc' = "chord"
    /\ UNCHANGED <<selection, app_delay, pending_copy, pasted>>
    /\ UNCHANGED <<max_retries, attempt, clipboard_backup, selected_text, cap_result, cap_obs>>
    /\ UNCHANGED <<spamVars, appVars, chatVars, hookVars>>

\* Lines 41-49: press_ctrl_c().
CaptureChord ==
    /\ cap_pc = "chord"
    /\ pending_copy' = TRUE
    /\ cap_obs' = [cap_obs EXCEPT !.chords = @ + 1]
    /\ cap_pc' = "read"
    /\ UNCHANGED <<clipboard, selection, app_delay, pasted>>
    /\ UNCHANGED <<max_retries, attempt, clipboard_backup, selected_text, cap_result>>
    /\ UNCHANGED <<spamVars, appVars, chatVars, hookVars>>

\* Line 62: selected_text and selected_text.strip()
MeaningfulText(t) == t # <<>> /\ Strip(t) # <<>>

\* A variant of AfterRead that gives up after a read equal to the backup
\* instead of going round the loop again.
AfterRead_NoRetry(t) ==
    IF MeaningfulText(t) THEN "restore"
    ELSE IF t # clipboard_backup THEN "restore"
    ELSE "final"

\* Lines 62-76: where the loop body goes after the read of line 57.
AfterRead(t) ==
    IF MeaningfulText(t) THEN "restore"
    ELSE IF t # clipboard_backup THEN "restore"
    ELSE IF attempt + 1 < max_retries THEN "clear"
    ELSE "final"

\* Lines 52-76: the sleep, selected_text = pyperclip.paste(), and the tests.
\* The sleep is over once the foreign application, if it is due, has served.
CaptureRead ==
    /\ cap_pc = "read"
    /\ ~(CopyDue /\ selection # <<>>)
    /\ selected_text' = clipboard
    /\ cap_obs' = [cap_obs EXCEPT !.reads = Append(@, clipboard)]
    /\ cap_pc' = AfterRead(clipboard)
    /\ attempt' = IF AfterRead(clipboard) \in {"clear", "final"} THEN attempt + 1 ELSE attempt
    /\ UNCHANGED envVars
    /\ UNCHANGED <<max_retries, clipboard_backup, cap_result>>
    /\ UNCHANGED <<spamVars, appVars, chatVars, hookVars>>

\* A variant of RestoreAndReturn that returns the text without putting the
\* backup back.
RestoreAndReturn_NoRestore ==
    /\ clipboard' = clipboard
    /\ cap_result' = selected_text
    /\ cap_pc' = "returned"

\* Lines 66-67 and 72-73: pyperclip.copy(clipboard_backup); return selected_text.
RestoreAndReturn ==
    /\ clipboard' = clipboard_backup
    /\ cap_result' = selected_text
    /\ cap_pc' = "returned"

CaptureRestore ==
    /\ cap_pc = "restore"
    /\ RestoreAndReturn
    /\ cap_obs' = [cap_obs EXCEPT !.exit = clipboard']
    /\ UNCHANGED <<selection, app_delay, pending_copy, pasted>>
    /\ UNCHANGED <<max_retries, attempt, clipboard_backup, selected_text>>
    /\ UNCHANGED <<spamVars, appVars, chatVars, hookVars>>

\* Lines 80-81: pyperclip.copy(clipboard_backup); return "".
CaptureFinal ==
    /\ cap_pc = "final"
    /\ clipboard' = clipboard_backup
    /\ cap_result' = <<>>
    /\ cap_pc' = "returned"
    /\ cap_obs' = [cap_obs EXCEPT !.exit = clipboard']
    /\ UNCHANGED <<selection, app_delay, pending_copy, pasted>>
    /\ UNCHANGED <<max_retries, attempt, clipboard_backup, selected_text>>
    /\ UNCHANGED <<spamVars, appVars, chatVars, hookVars>>

\* A caller of get_selected_text(max_retries=n), one call after another.
CaptureDriver(n) ==
    /\ cap_pc \in {"idle", "returned"}
    /\ cap_obs.calls < MaxCaptures
    /\ GetSelectedTextCall(n)
    /\ UNCHANGED envVars
    /\ UNCHANGED <<spamVars, appVars, chatVars, hookVars>>

-----------------------------------------------------------------------------
(* WritingToolApp.check_trigger_spam.                                      *)

\* self.TRIGGER_WINDOW = 1.5 seconds, in tenths of a second (line 100).
TRIGGER_WINDOW == 15
\* self.MAX_TRIGGERS (line 101).
MAX_TRIGGERS == 3

\* Line 114: the test that keeps a recorded trigger.
WithinWindow(current_time, t) == current_time - t <= TRIGGER_WINDOW

\* Lines 111-114: append the current time, drop the triggers outside the window.
TriggersAfter(triggers, current_time) ==
    SelectSeq(Append(triggers, current_time), LAMBDA t : WithinWindow(current_time, t))

\* A variant of TooManyTriggers that needs more than MAX_TRIGGERS triggers.
TooManyTriggers_OffByOne(triggers) == Len(triggers) > MAX_TRIGGERS

\* Line 117: len(self.recent_triggers) >= self.MAX_TRIGGERS
TooManyTriggers(triggers) == Len(triggers) >= MAX_TRIGGERS

\* check_trigger_spam(): the new recent_triggers; the value returned is
\* TooManyTriggers of it.
CheckTriggerSpam ==
    /\ recent_triggers' = TriggersAfter(recent_triggers, now)
    /\ spam_log' = Append(spam_log, <<now, TooManyTriggers(recent_triggers')>>)
    /\ UNCHANGED now

\* Time passes: d tenths of a second.
Tick(d) ==
    /\ now + d <= MaxTime
    /\ now' = now + d
    /\ UNCHANGED <<recent_triggers, spam_log>>
    /\ UNCHANGED <<envVars, capVars, appVars, chatVars, hookVars>>

\* A caller of check_trigger_spam(), one call after another.
SpamDriver ==
    /\ Len(spam_log) < MaxSpamCalls
    /\ CheckTriggerSpam
    /\ UNCHANGED <<envVars, capVars, appVars, chatVars, hookVars>>

-----------------------------------------------------------------------------
(* Operations, response windows and requests.                              *)

\* app.current_response_window after delattr (TextOperationsManager line 116,
\* ResponseWindow line 555): hasattr(app, "current_response_window") is false.
Unset == -1
\* app.current_response_window = None (WritingToolApp line 38).
NoWindow == 0

\* self.app.options[option]["open_in_window"]
OpenInWindow(option) == option = "Summary"

\* TextOperationsManager lines 100 and 153: the response goes to a window.
WindowMode(option, text) ==
    (option = "Custom" /\ Strip(text) = <<>>) \/ OpenInWindow(option)

\* ChatMessageManager: one turn of chat_history.
Turn(role, content) == [role |-> role, content |-> content]

\* ChatMessageManager lines 50-68, on the list the manager holds.
AddUserMessage(history, message) == Append(history, Turn("user", message))

AddAssistantMessage_Prepend(history, message) == <<Turn("assistant", message)>> \o history

AddAssistantMessage(history, message) == Append(history, Turn("assistant", message))

HasMessages(history) == Len(history) > 0

GetChatHistory(history) == history

\* history or []
SetChatHistory(history) == IF history = <<>> THEN <<>> ELSE history

\* A ResponseWindow as __init__ leaves it: message_manager.chat_history = [],
\* nothing in the chat area, the input field enabled.
NewWindow(title) ==
    [open |-> TRUE, title |-> title, history |-> <<>>, shown |-> <<>>,
     input_enabled |-> TRUE]

\* f"Original text to {option.lower()}:\n\n{selected_text}" (line 111); the
\* words before the text are kept as one token.
OriginalTextMessage(option, text) == <<"Original text to ", option, ":\n\n">> \o text

\* ChatMessageManager.extract_user_display_text (lines 70-81).
ExtractUserDisplayText(message) ==
    IF message # <<>> /\ Head(message) = "Original text to "
    THEN IF Len(message) >= 3 /\ Strip(SubSeq(message, 4, Len(message))) # <<>>
         THEN SubSeq(message, 4, Len(message))
         ELSE message
    ELSE message

\* ResponseWindow.set_text (lines 429-459) on window w.
SetText(ws, w, text) ==
    IF Strip(text) = <<>> THEN ws
    ELSE LET history == Append(ws[w].history, Turn("assistant", text))
             first == ExtractUserDisplayText(history[1].content)
             shown1 == IF Len(history) >= 2 /\ first # <<>>
                       THEN Append(ws[w].shown, Turn("user", first))
                       ELSE ws[w].shown
         IN  [ws EXCEPT ![w].history = history,
                        ![w].shown = Append(shown1, Turn("assistant", text)),
                        ![w].input_enabled = TRUE]

\* ResponseWindow.handle_followup_response (lines 462-482) on window w.
HandleFollowupResponse(ws, w, text) ==
    LET h == ws[w].history
        history == IF text # <<>> /\ Len(h) > 0 /\ h[Len(h)].role # "assistant"
                   THEN Append(h, Turn("assistant", text))
                   ELSE h
        shown == IF text # <<>> THEN Append(ws[w].shown, Turn("assistant", text))
                 ELSE ws[w].shown
    IN  [ws EXCEPT ![w].history = history, ![w].shown = shown,
                   ![w].input_enabled = TRUE]

\* A thread as threading.Thread(...).start() leaves it.  win is the window
\* the request belongs to: the response_window argument of a follow-up, the
\* window process_option opened for an operation (0 when it opened none).
\* The last fields observe the run: the events of the thread (messages
\* emitted, clipboard and keyboard operations, set_text calls), the
\* output_queue after line 204, whether a newer request was dispatched or a
\* cancel issued while the provider call was pending, the value of
\* close_requested when the provider call resolved, whether the output
\* reached a paste or a window, whether get_response was entered, the
\* window a queued set_text put the output in, the history a follow-up
\* found in its window when it added its question, and the text of the
\* exception the provider call raised.
NewRequest(kind, option, text, custom, win) ==
    [kind |-> kind, option |-> option, text |-> text, custom |-> custom,
     win |-> win, pc |-> IF kind = "option" THEN "start" ELSE "fu_start",
     prompt |-> <<>>, response_text |-> <<>>, clipboard_backup |-> <<>>,
     trace |-> <<>>, accumulated |-> <<>>, saw_window |-> FALSE,
     superseded |-> FALSE, cancel_signalled |-> FALSE,
     flag_at_completion |-> FALSE, resolved |-> FALSE, delivered |-> FALSE,
     provider_called |-> FALSE, delivered_to |-> 0, prior |-> <<>>,
     failure |-> <<>>]

\* The provider call of the request has not resolved yet.
Pending(q) == q.pc \in {"start", "fu_start", "fu_prompt", "get_response", "provider"}

Event(op, text) == <<op, text>>

\* An entry of the primary thread's event queue; req is the request a
\* set_text or followup_response was queued for, or the number of the hotkey
\* activation a _show_popup was queued for.
Queued(kind, win, text, req) == [kind |-> kind, win |-> win, text |-> text, req |-> req]

-----------------------------------------------------------------------------
(* Slots of the primary thread.                                            *)

\* A variant of UiIdle in which the primary thread serves events while it is
\* inside a slot.
UiIdle_Reentrant == app_running

UiIdle == app_running /\ ui_pc = "idle"

\* GeminiProvider.cancel (line 203), as issued by on_hotkey_pressed, and the
\* requests it is issued for.
Cancel ==
    /\ close_requested' = TRUE
    /\ requests' = [i \in DOMAIN requests |->
                      IF Pending(requests[i])
                      THEN [requests[i] EXCEPT !.cancel_signalled = TRUE]
                      ELSE requests[i]]

\* The chord configured when nothing else is (HotkeyManager line 34).
DefaultChord == "ctrl+space"

\* hotkey_listener.stop() on the listener HotkeyManager holds, if it runs
\* (lines 39-40 and 148-150).
StopListener ==
    IF hotkey_listener THEN SubSeq(hooks, 1, Len(hooks) - 1) ELSE hooks

\* A variant of ExitApp that issues quit() first and leaves the listener for
\* afterwards.
ExitApp_QuitFirst ==
    /\ app_running' = FALSE
    /\ ui_pc' = "exiting"
    /\ UNCHANGED <<hotkey_listener, hooks>>

\* WritingToolApp.exit_app lines 520-521, with HotkeyManager.
\* stop_hotkey_listener (lines 146-150): the listener, if there is one, is
\* stopped and forgotten; quit() is still to come.
ExitApp ==
    /\ hotkey_listener' = FALSE
    /\ hooks' = StopListener
    /\ ui_pc' = "exiting"
    /\ UNCHANGED app_running

\* WritingToolApp.exit_app lines 522-523: quit().
ExitAppQuit ==
    /\ app_running
    /\ ui_pc = "exiting"
    /\ app_running' = FALSE
    /\ ui_pc' = "exited"
    /\ UNCHANGED <<hotkey_listener, close_requested, output_queue,
                   current_response_window, popup_window, windows, ui_queue,
                   requests, hotkey_obs>>
    /\ UNCHANGED <<envVars, capVars, spamVars, chatVars, hookVars>>

\* exit_app reached from the tray menu's Exit (WritingToolApp line 392), from
\* SIGINT (lines 509-514, served by the primary thread's timer) or, when no
\* listener was registered, from the close_signal of the onboarding and
\* provider-settings windows (lines 185 and 465).
ExitRequested ==
    /\ UiIdle
    /\ ExitApp
    /\ UNCHANGED <<close_requested, output_queue, current_response_window,
                   popup_window, windows, ui_queue, requests, hotkey_obs>>
    /\ UNCHANGED <<envVars, capVars, spamVars, chatVars, shortcut, reg_obs>>

\* A variant of SpamShutdown in which on_hotkey_pressed does not return after
\* exit_app and goes on to cancel, reset and queue the popup.
SpamShutdown_FallThrough ==
    /\ ExitApp
    /\ Cancel
    /\ output_queue' = <<>>
    /\ ui_queue' = Append(ui_queue, Queued("show_popup", 0, <<>>, Len(spam_log')))

\* HotkeyManager.on_hotkey_pressed lines 80-83: spam was detected.
SpamShutdown ==
    /\ ExitApp
    /\ UNCHANGED <<close_requested, requests, output_queue, ui_queue>>

\* HotkeyManager.on_hotkey_pressed lines 86-92: cancel the provider's
\* request, reset the accumulator, queue _show_popup.
CancelAndQueuePopup ==
    /\ Cancel
    /\ output_queue' = <<>>
    /\ ui_queue' = Append(ui_queue, Queued("show_popup", 0, <<>>, Len(spam_log')))
    /\ UNCHANGED <<hotkey_listener, hooks, app_running, ui_pc>>

\* HotkeyManager.on_hotkey_pressed (lines 72-92), run by the primary thread
\* for a hotkey_triggered_signal of the listener thread.
OnHotkeyPressed ==
    /\ UiIdle
    /\ hotkey_listener
    /\ Len(spam_log) < MaxHotkeys
    /\ CheckTriggerSpam
    /\ IF TooManyTriggers(recent_triggers') THEN SpamShutdown ELSE CancelAndQueuePopup
    /\ hotkey_obs' = [spam |-> TooManyTriggers(recent_triggers'),
                      snapshot |-> <<close_requested, output_queue, ui_queue,
                                     cap_obs.calls, Len(requests), popup_window>>,
                      after |-> <<close_requested', output_queue', ui_queue',
                                  cap_obs.calls, Len(requests'), popup_window>>]
    /\ UNCHANGED <<current_response_window, popup_window, windows>>
    /\ UNCHANGED <<envVars, capVars, chatVars, shortcut, reg_obs>>

\* HotkeyManager._show_popup lines 99-101: the queued slot starts and calls
\* get_selected_text() with the default max_retries=2.
ShowPopupBegin ==
    /\ UiIdle
    /\ ui_queue # <<>>
    /\ Head(ui_queue).kind = "show_popup"
    /\ ui_queue' = Tail(ui_queue)
    /\ GetSelectedTextCall(2)
    /\ ui_pc' = "popup1"
    /\ UNCHANGED <<app_running, hotkey_listener, close_requested, output_queue,
                   current_response_window, popup_window, windows, requests, hotkey_obs>>
    /\ UNCHANGED <<envVars, spamVars, chatVars, hookVars>>

\* Lines 104-106: nothing captured, get_selected_text(max_retries=3).
ShowPopupRetry ==
    /\ ui_pc = "popup1"
    /\ cap_pc = "returned"
    /\ cap_result = <<>>
    /\ GetSelectedTextCall(3)
    /\ ui_pc' = "popup2"
    /\ UNCHANGED <<app_running, hotkey_listener, close_requested, output_queue,
                   current_response_window, popup_window, windows, ui_queue,
                   requests, hotkey_obs>>
    /\ UNCHANGED <<envVars, spamVars, chatVars, hookVars>>

\* Lines 108-142: no meaningful text opens a chat window directly (it does
\* not become app.current_response_window); otherwise the popup replaces
\* any earlier popup.
ShowPopupEnd ==
    /\ cap_pc = "returned"
    /\ \/ ui_pc = "popup1" /\ cap_result # <<>>
       \/ ui_pc = "popup2"
    /\ IF Strip(cap_result) = <<>>
       THEN /\ Len(windows) < MaxWin
            /\ windows' = Append(windows, NewWindow("Chat"))
            /\ UNCHANGED popup_window
       ELSE /\ popup_window' = <<cap_result>>
            /\ UNCHANGED windows
    /\ ui_pc' = "idle"
    /\ cap_pc' = "idle"
    /\ UNCHANGED <<max_retries, attempt, clipboard_backup, selected_text, cap_result, cap_obs>>
    /\ UNCHANGED <<app_running, hotkey_listener, close_requested, output_queue,
                   current_response_window, ui_queue, requests, hotkey_obs>>
    /\ UNCHANGED <<envVars, spamVars, chatVars, hookVars>>

\* Requests as a newly dispatched request finds them: those whose provider
\* call is pending have been overtaken.
Overtaken(reqs) ==
    [i \in DOMAIN reqs |->
        IF Pending(reqs[i]) THEN [reqs[i] EXCEPT !.superseded = TRUE] ELSE reqs[i]]

\* TextOperationsManager.process_option (lines 93-120).
ProcessOption(option, text, custom) ==
    /\ Len(requests) < MaxReq
    /\ IF WindowMode(option, text)
       THEN /\ Len(windows) < MaxWin
            /\ windows' = Append(windows,
                 [NewWindow(IF option = "Custom" /\ Strip(text) = <<>> THEN "Chat" ELSE option)
                      EXCEPT !.history =
                     IF option = "Custom" /\ Strip(text) = <<>> THEN <<>>
                     ELSE <<Turn("user", OriginalTextMessage(option, text))>>])
            /\ current_response_window' = Len(windows) + 1
            /\ requests' = Append(Overtaken(requests),
                                  NewRequest("option", option, text, custom, Len(windows) + 1))
       ELSE /\ current_response_window' = Unset
            /\ UNCHANGED windows
            /\ requests' = Append(Overtaken(requests),
                                  NewRequest("option", option, text, custom, 0))

\* CustomPopupWindow.on_generic_instruction (lines 279-281).
OnGenericInstruction(option) ==
    /\ UiIdle
    /\ popup_window # <<>>
    /\ ProcessOption(option, popup_window[1], <<>>)
    /\ popup_window' = <<>>
    /\ UNCHANGED <<app_running, hotkey_listener, close_requested, output_queue,
                   ui_pc, ui_queue, hotkey_obs>>
    /\ UNCHANGED <<envVars, capVars, spamVars, chatVars, hookVars>>

\* CustomPopupWindow.on_custom_change (lines 273-277): txt is not blank.
OnCustomChange(txt) ==
    /\ UiIdle
    /\ popup_window # <<>>
    /\ Strip(txt) # <<>>
    /\ ProcessOption("Custom", popup_window[1], Strip(txt))
    /\ popup_window' = <<>>
    /\ UNCHANGED <<app_running, hotkey_listener, close_requested, output_queue,
                   ui_pc, ui_queue, hotkey_obs>>
    /\ UNCHANGED <<envVars, capVars, spamVars, chatVars, hookVars>>

\* ResponseWindow.send_message (lines 484-505) in window w, and
\* ConversationManager.process_followup_question line 89: the thread starts.
SendMessage(w, message) ==
    /\ UiIdle
    /\ w \in DOMAIN windows
    /\ windows[w].open
    /\ windows[w].input_enabled
    /\ Strip(message) # <<>>
    /\ Len(requests) < MaxReq
    /\ windows' = [windows EXCEPT ![w].input_enabled = FALSE,
                                  ![w].shown = Append(@, Turn("user", Strip(message)))]
    /\ requests' = Append(requests, NewRequest("followup", "", <<>>, Strip(message), w))
    /\ UNCHANGED <<app_running, hotkey_listener, close_requested, output_queue,
                   current_response_window, popup_window, ui_pc, ui_queue, hotkey_obs>>
    /\ UNCHANGED <<envVars, capVars, spamVars, chatVars, hookVars>>

\* The queued ResponseWindow.set_text of TextOperationsManager lines 165-170.
QueuedSetText ==
    /\ UiIdle
    /\ ui_queue # <<>>
    /\ Head(ui_queue).kind = "set_text"
    /\ ui_queue' = Tail(ui_queue)
    /\ windows' = SetText(windows, Head(ui_queue).win, Head(ui_queue).text)
    /\ requests' = IF Strip(Head(ui_queue).text) # <<>>
                   THEN [requests EXCEPT ![Head(ui_queue).req].delivered = TRUE,
                                         ![Head(ui_queue).req].delivered_to = Head(ui_queue).win]
                   ELSE requests
    /\ UNCHANGED <<app_running, hotkey_listener, close_requested, output_queue,
                   current_response_window, popup_window, ui_pc, hotkey_obs>>
    /\ UNCHANGED <<envVars, capVars, spamVars, chatVars, hookVars>>

\* The slots connected to followup_response_signal, in connection order:
\* WritingToolApp.handle_followup_response (lines 453-456, connected at line
\* 49) and then the handle_followup_response of every ResponseWindow
\* (connected at ResponseWindow line 42).
RECURSIVE EachWindowHandles(_, _, _)
EachWindowHandles(ws, w, text) ==
    IF w > Len(ws) THEN ws
    ELSE EachWindowHandles(HandleFollowupResponse(ws, w, text), w + 1, text)

FollowupSlots(ws, text) ==
    LET first == IF current_response_window \notin {Unset, NoWindow}
                 THEN HandleFollowupResponse(ws, current_response_window, text)
                 ELSE ws
    IN  EachWindowHandles(first, 1, text)

QueuedFollowupResponse ==
    /\ UiIdle
    /\ ui_queue # <<>>
    /\ Head(ui_queue).kind = "followup_response"
    /\ ui_queue' = Tail(ui_queue)
    /\ windows' = FollowupSlots(windows, Head(ui_queue).text)
    /\ UNCHANGED <<app_running, hotkey_listener, close_requested, output_queue,
                   current_response_window, popup_window, ui_pc, requests, hotkey_obs>>
    /\ UNCHANGED <<envVars, capVars, spamVars, chatVars, hookVars>>

\* ResponseWindow.closeEvent (lines 545-557) of window w.
CloseWindow(w) ==
    /\ UiIdle
    /\ w \in DOMAIN windows
    /\ windows[w].open
    /\ windows' = [windows EXCEPT ![w].open = FALSE, ![w].history = <<>>]
    /\ current_response_window' = Unset
    /\ UNCHANGED <<app_running, hotkey_listener, close_requested, output_queue,
                   popup_window, ui_pc, ui_queue, requests, hotkey_obs>>
    /\ UNCHANGED <<envVars, capVars, spamVars, chatVars, hookVars>>

\* ChatHistoryWindow.open_chat (lines 275-305): a saved chat is opened in a
\* new window, which becomes app.current_response_window.
OpenSavedChat ==
    /\ UiIdle
    /\ Len(windows) < MaxWin
    /\ windows' = Append(windows, NewWindow("Saved Chat"))
    /\ current_response_window' = Len(windows) + 1
    /\ UNCHANGED <<app_running, hotkey_listener, close_requested, output_queue,
                   popup_window, ui_pc, ui_queue, requests, hotkey_obs>>
    /\ UNCHANGED <<envVars, capVars, spamVars, chatVars, hookVars>>

-----------------------------------------------------------------------------
(* Request threads: process_option_thread, process_thread (follow-up),     *)
(* GeminiProvider.get_response and replace_text, statement by statement.   *)

\* What a step of a request thread leaves alone.
ThreadFrame ==
    /\ UNCHANGED <<app_running, hotkey_listener, popup_window, ui_pc, hotkey_obs>>
    /\ UNCHANGED <<selection, app_delay, pending_copy>>
    /\ UNCHANGED <<capVars, spamVars, chatVars, hookVars>>

AtPc(r, pc) == app_running /\ r \in DOMAIN requests /\ requests[r].pc = pc

\* The prompt of process_option_thread (lines 128-147); the option's prefix
\* is kept as one token.
OptionPrompt(option, text, custom) ==
    IF Strip(text) = <<>> THEN custom
    ELSE IF option = "Custom"
         THEN <<"prefix:", option, "Described change: ">> \o custom \o <<"\n\nText: ">> \o text
         ELSE <<"prefix:", option>> \o text

\* ConversationManager lines 46-56: the conversation text of a follow-up,
\* from the history that already ends with the question.
RECURSIVE ConversationTurns(_)
ConversationTurns(msgs) ==
    IF msgs = <<>> THEN <<>>
    ELSE (IF Head(msgs).role = "user" THEN <<"User: ">> ELSE <<"Assistant: ">>)
         \o Head(msgs).content \o <<"\n\n">> \o ConversationTurns(Tail(msgs))

ConversationText(history, question) ==
    <<"system_instruction", "\n\n">>
    \o (IF Len(history) > 1 THEN ConversationTurns(SubSeq(history, 1, Len(history) - 1)) ELSE <<>>)
    \o <<"User: ">> \o question \o <<"\n\nAssistant:">>

\* process_option_thread lines 127-149: build the prompt, reset the
\* accumulator; without text and without a custom instruction, report and
\* return.
OptionThreadStart(r) ==
    /\ AtPc(r, "start")
    /\ LET q == requests[r] IN
       IF Strip(q.text) = <<>> /\ q.option # "Custom"
       THEN /\ requests' = [requests EXCEPT ![r].pc = "done",
                               ![r].trace = Append(@, Event("msg", <<"Please select text to use this option.">>))]
            /\ UNCHANGED output_queue
       ELSE /\ requests' = [requests EXCEPT ![r].pc = "get_response",
                               ![r].prompt = OptionPrompt(q.option, q.text, q.custom)]
            /\ output_queue' = <<>>
    /\ UNCHANGED <<close_requested, current_response_window, windows, ui_queue, clipboard, pasted>>
    /\ ThreadFrame

\* ConversationManager process_thread lines 27-30: the question joins the
\* window's history.  The request remembers the turns that were there before.
FollowupThreadAdd(r) ==
    /\ AtPc(r, "fu_start")
    /\ LET q == requests[r]
       IN  /\ windows' = [windows EXCEPT
                  ![q.win].history = AddUserMessage(@, q.custom)]
           /\ requests' = [requests EXCEPT ![r].pc = "fu_prompt",
                              ![r].prior = windows[q.win].history]
    /\ UNCHANGED <<close_requested, output_queue, current_response_window, ui_queue, clipboard, pasted>>
    /\ ThreadFrame

\* ConversationManager process_thread lines 33-56: the history is read again
\* and the conversation text is built from all of it but its last turn.
FollowupThreadPrompt(r) ==
    /\ AtPc(r, "fu_prompt")
    /\ LET q == requests[r]
       IN  requests' = [requests EXCEPT ![r].pc = "get_response",
                 ![r].prompt = ConversationText(GetChatHistory(windows[q.win].history), q.custom)]
    /\ UNCHANGED <<close_requested, output_queue, current_response_window, ui_queue, windows, clipboard, pasted>>
    /\ ThreadFrame

\* GeminiProvider.get_response line 99.
GetResponseEnter(r) ==
    /\ AtPc(r, "get_response")
    /\ close_requested' = FALSE
    /\ requests' = [requests EXCEPT ![r].pc = "provider", ![r].provider_called = TRUE]
    /\ UNCHANGED <<output_queue, current_response_window, windows, ui_queue, clipboard, pasted>>
    /\ ThreadFrame

\* return_response of the get_response call of request q (lines 155 and 174
\* of TextOperationsManager, line 62 of ConversationManager).
ReturnResponse(q) == q.kind = "followup" \/ WindowMode(q.option, q.text)

\* Lines 135-148: generate_content returns text; it loses its trailing
\* newlines and is returned or handed to replace_text.
ProviderResolve(r, text) ==
    /\ AtPc(r, "provider")
    /\ requests' = [requests EXCEPT
                      ![r].response_text = RStripNewlines(text),
                      ![r].resolved = TRUE,
                      ![r].flag_at_completion = close_requested,
                      ![r].pc = IF ReturnResponse(requests[r]) THEN "finally" ELSE "rt_enter"]
    /\ UNCHANGED <<close_requested, output_queue, current_response_window, windows,
                   ui_queue, clipboard, pasted>>
    /\ ThreadFrame

\* The text of a provider exception is a sequence of fragments.
E_Timeout == <<"Request ", "Timeout">>
E_RateLimit == <<"429 ", "Resource has been exhausted", " (e.g. check quota).">>
E_Safety == <<"Response ", "blocked">>
E_Invalid == <<"400 ", "invalid", " argument">>
E_Auth == <<"API key", " expired">>
E_Unavailable == <<"503 ", "Service Unavailable">>
E_Unknown == <<"Connection reset">>

\* str.lower() on a fragment.
ErrLower(tok) ==
    CASE tok = "Timeout" -> "timeout"
      [] tok = "Resource has been exhausted" -> "resource has been exhausted"
      [] tok = "API key" -> "api key"
      [] tok = "Service Unavailable" -> "service unavailable"
      [] tok = "Connection reset" -> "connection reset"
      [] OTHER -> tok

\* keyword in error_str.lower()
ErrContains(err, keyword) == \E i \in DOMAIN err : ErrLower(err[i]) = keyword

\* GeminiProvider.get_response lines 154-174: the message for an exception
\* text, chosen by the first keyword group the lower-cased text contains.
GeminiErrorMessage(err) ==
    IF ErrContains(err, "timeout") \/ ErrContains(err, "time out")
    THEN <<"Request timed out. Please try again.">>
    ELSE IF ErrContains(err, "safety") \/ ErrContains(err, "blocked")
    THEN <<"Content was blocked by safety filters. Try rephrasing your request.">>
    ELSE IF ErrContains(err, "not found") \/ ErrContains(err, "invalid")
    THEN <<"Model error: ">> \o err
    ELSE IF \/ ErrContains(err, "authentication")
            \/ ErrContains(err, "api key")
            \/ ErrContains(err, "unauthorized")
    THEN <<"Authentication failed. Please check your API key in settings.">>
    ELSE IF ErrContains(err, "service unavailable") \/ ErrContains(err, "server error")
    THEN <<"Gemini service temporarily unavailable. Please try again in a moment.">>
    ELSE <<"Gemini API Error: ">> \o err

\* A variant of ProviderFail in which the exception is swallowed without a
\* message.
ProviderFail_Silent(r, err) ==
    /\ AtPc(r, "provider")
    /\ requests' = [requests EXCEPT ![r].failure = err, ![r].pc = "finally"]
    /\ UNCHANGED <<close_requested, output_queue, current_response_window, windows,
                   ui_queue, clipboard, pasted>>
    /\ ThreadFrame

\* Lines 150-174: generate_content raises; the message is emitted and
\* get_response is about to return "".
ProviderFail(r, err) ==
    /\ AtPc(r, "provider")
    /\ requests' = [requests EXCEPT
                      ![r].trace = Append(@, Event("msg", GeminiErrorMessage(err))),
                      ![r].failure = err,
                      ![r].pc = "finally"]
    /\ UNCHANGED <<close_requested, output_queue, current_response_window, windows,
                   ui_queue, clipboard, pasted>>
    /\ ThreadFrame

\* Line 213 guards the prefix comparison of lines 214-216.
WithheldAsPrefix(current_output) ==
    /\ Len(current_output) <= Len(ERROR_MESSAGE)
    /\ RemoveWhitespace(current_output)
         = Slice(RemoveWhitespace(ERROR_MESSAGE), Len(RemoveWhitespace(current_output)))

\* A variant of ShowsIncompatible that compares without stripping.
ShowsIncompatible_Unstripped(queue) == queue = ERROR_MESSAGE

\* Lines 205-208: the stripped accumulator is the sentinel.
ShowsIncompatible(queue) == Strip(queue) = ERROR_MESSAGE

\* replace_text lines 202-217: accumulate, then the sentinel test and the
\* prefix test.
ReplaceTextEnter(r) ==
    /\ AtPc(r, "rt_enter")
    /\ LET new_text == requests[r].response_text
           queue == output_queue \o new_text
       IN  IF new_text = <<>>
           THEN /\ requests' = [requests EXCEPT ![r].pc = "finally"]
                /\ UNCHANGED output_queue
           ELSE /\ output_queue' = queue
                /\ requests' = [requests EXCEPT
                      ![r].accumulated = queue,
                      ![r].trace = IF ShowsIncompatible(queue)
                                   THEN Append(@, Event("msg", <<"The text is incompatible with the requested change.">>))
                                   ELSE @,
                      ![r].pc = IF ShowsIncompatible(queue) \/ WithheldAsPrefix(Strip(queue))
                                THEN "finally" ELSE "rt_route"]
    /\ UNCHANGED <<close_requested, current_response_window, windows, ui_queue, clipboard, pasted>>
    /\ ThreadFrame

\* Lines 222-227: with app.current_response_window set, set_text is called
\* on it (None raises, line 246 logs); without it the clipboard is saved.
ReplaceTextRoute(r) ==
    /\ AtPc(r, "rt_route")
    /\ IF current_response_window = Unset
       THEN /\ requests' = [requests EXCEPT
                   ![r].clipboard_backup = clipboard,
                   ![r].trace = Append(@, Event("save", clipboard)),
                   ![r].pc = "rt_write"]
            /\ UNCHANGED windows
       ELSE IF current_response_window = NoWindow
       THEN /\ requests' = [requests EXCEPT ![r].saw_window = TRUE, ![r].pc = "finally"]
            /\ UNCHANGED windows
       ELSE /\ windows' = SetText(windows, current_response_window, RStripNewlines(output_queue))
            /\ requests' = [requests EXCEPT
                   ![r].saw_window = TRUE,
                   ![r].trace = Append(@, Event("set_text", RStripNewlines(output_queue))),
                   ![r].delivered = Strip(output_queue) # <<>>,
                   ![r].pc = "rt_clear"]
    /\ UNCHANGED <<close_requested, output_queue, current_response_window, ui_queue, clipboard, pasted>>
    /\ ThreadFrame

\* A variant of ReplaceTextWrite that leaves the clipboard alone.
ReplaceTextWrite_NoCopy(r) ==
    /\ AtPc(r, "rt_write")
    /\ requests' = [requests EXCEPT ![r].pc = "rt_paste"]
    /\ UNCHANGED <<clipboard, close_requested, output_queue, current_response_window,
                   windows, ui_queue, pasted>>
    /\ ThreadFrame

\* Lines 228-229: cleaned_text = output_queue.rstrip("\n") goes to the
\* clipboard.
ReplaceTextWrite(r) ==
    /\ AtPc(r, "rt_write")
    /\ clipboard' = RStripNewlines(output_queue)
    /\ requests' = [requests EXCEPT
                      ![r].trace = Append(@, Event("write", RStripNewlines(output_queue))),
                      ![r].pc = "rt_paste"]
    /\ UNCHANGED <<close_requested, output_queue, current_response_window, windows,
                   ui_queue, pasted>>
    /\ ThreadFrame

\* Lines 231-239: Ctrl+V; the focused application pastes the clipboard
\* within the wait of line 240.
ReplaceTextPaste(r) ==
    /\ AtPc(r, "rt_paste")
    /\ pasted' = Append(pasted, clipboard)
    /\ requests' = [requests EXCEPT
                      ![r].trace = Append(@, Event("paste", clipboard)),
                      ![r].delivered = TRUE,
                      ![r].pc = "rt_restore"]
    /\ UNCHANGED <<close_requested, output_queue, current_response_window, windows,
                   ui_queue, clipboard>>
    /\ ThreadFrame

\* Lines 240-241: after the wait the saved clipboard is written back.
ReplaceTextRestore(r) ==
    /\ AtPc(r, "rt_restore")
    /\ clipboard' = requests[r].clipboard_backup
    /\ requests' = [requests EXCEPT
                      ![r].trace = Append(@, Event("restore", requests[r].clipboard_backup)),
                      ![r].pc = "rt_clear"]
    /\ UNCHANGED <<close_requested, output_queue, current_response_window, windows,
                   ui_queue, pasted>>
    /\ ThreadFrame

\* Lines 243-244: the accumulator is cleared unless a response window is
\* current.
ReplaceTextClear(r) ==
    /\ AtPc(r, "rt_clear")
    /\ output_queue' = IF current_response_window = Unset THEN <<>> ELSE output_queue
    /\ requests' = [requests EXCEPT ![r].pc = "finally"]
    /\ UNCHANGED <<close_requested, current_response_window, windows, ui_queue, clipboard, pasted>>
    /\ ThreadFrame

\* GeminiProvider.get_response lines 175-176, and where the thread goes on.
GetResponseFinally(r) ==
    /\ AtPc(r, "finally")
    /\ close_requested' = FALSE
    /\ requests' = [requests EXCEPT ![r].pc =
                      IF requests[r].kind = "followup" THEN "fu_deliver"
                      ELSE IF ReturnResponse(requests[r]) THEN "deliver" ELSE "done"]
    /\ UNCHANGED <<output_queue, current_response_window, windows, ui_queue, clipboard, pasted>>
    /\ ThreadFrame

\* process_option_thread lines 159-170 (window mode): the custom question
\* joins the current window's history and set_text is queued for the
\* current window; a missing window or None raises, and lines 177-186 emit
\* the error message.
OptionThreadDeliver(r) ==
    /\ AtPc(r, "deliver")
    /\ LET q == requests[r]
           chat == q.option = "Custom" /\ Strip(q.text) = <<>>
           crw == current_response_window
       IN  IF (chat /\ crw \in {Unset, NoWindow}) \/ crw = NoWindow
           THEN /\ requests' = [requests EXCEPT ![r].pc = "done",
                      ![r].trace = Append(@, Event("msg", <<"An error occurred: ", "AttributeError">>))]
                /\ UNCHANGED <<windows, ui_queue>>
           ELSE /\ windows' = IF chat
                              THEN [windows EXCEPT ![crw].history = Append(@, Turn("user", q.custom))]
                              ELSE windows
                /\ ui_queue' = IF crw # Unset
                               THEN Append(ui_queue, Queued("set_text", crw, q.response_text, r))
                               ELSE ui_queue
                /\ requests' = [requests EXCEPT ![r].pc = "done"]
    /\ UNCHANGED <<close_requested, output_queue, current_response_window, clipboard, pasted>>
    /\ ThreadFrame

\* ConversationManager process_thread lines 67-73: the returned text, empty
\* after a failure, joins the window's history and the signal is emitted.
FollowupThreadDeliver(r) ==
    /\ AtPc(r, "fu_deliver")
    /\ LET q == requests[r] IN
       /\ windows' = [windows EXCEPT ![q.win].history = AddAssistantMessage(@, q.response_text)]
       /\ ui_queue' = Append(ui_queue, Queued("followup_response", q.win, q.response_text, r))
    /\ requests' = [requests EXCEPT ![r].pc = "done"]
    /\ UNCHANGED <<close_requested, output_queue, current_response_window, clipboard, pasted>>
    /\ ThreadFrame

\* One statement of the thread of request r, whatever the provider answers.
ThreadStep(r, responses, errors) ==
    \/ OptionThreadStart(r)
    \/ FollowupThreadAdd(r)
    \/ FollowupThreadPrompt(r)
    \/ GetResponseEnter(r)
    \/ \E text \in responses : ProviderResolve(r, text)
    \/ \E err \in errors : ProviderFail(r, err)
    \/ ReplaceTextEnter(r)
    \/ ReplaceTextRoute(r)
    \/ ReplaceTextWrite(r)
    \/ ReplaceTextPaste(r)
    \/ ReplaceTextRestore(r)
    \/ ReplaceTextClear(r)
    \/ GetResponseFinally(r)
    \/ OptionThreadDeliver(r)
    \/ FollowupThreadDeliver(r)

-----------------------------------------------------------------------------
(* Initial states.                                                         *)

InitEnv(clips, sels, delays) ==
    /\ clipboard \in clips
    /\ selection \in sels
    /\ app_delay \in delays
    /\ pending_copy = FALSE
    /\ pasted = <<>>

InitCapture ==
    /\ cap_pc = "idle"
    /\ max_retries = 0
    /\ attempt = 0
    /\ clipboard_backup = <<>>
    /\ selected_text = <<>>
    /\ cap_result = <<>>
    /\ cap_obs = [entry |-> <<>>, chords |-> 0, reads |-> <<>>, exit |-> <<>>,
                  calls |-> 0, sel |-> <<>>, delay |-> 0]

\* WritingToolApp.__init__ lines 99-101.
InitSpam ==
    /\ now = 0
    /\ recent_triggers = <<>>
    /\ spam_log = <<>>

\* ChatMessageManager.__init__ (lines 8-9) without a history.
InitChat ==
    /\ chat_history = <<>>
    /\ chat_calls = <<>>

\* WritingToolApp.__init__ with a configuration present: the provider is
\* loaded and the hotkey registered (lines 38, 85-97); GeminiProvider.__init__
\* line 28; TextOperationsManager.__init__ line 20; HotkeyManager.__init__.
InitAppState(listener) ==
    /\ app_running = TRUE
    /\ hotkey_listener = listener
    /\ close_requested = FALSE
    /\ output_queue = <<>>
    /\ current_response_window = NoWindow
    /\ popup_window = <<>>
    /\ ui_pc = "idle"
    /\ windows = <<>>
    /\ ui_queue = <<>>
    /\ requests = <<>>
    /\ hotkey_obs = [spam |-> FALSE, snapshot |-> <<>>, after |-> <<>>]
    /\ shortcut = DefaultChord
    /\ hooks = IF listener THEN <<DefaultChord>> ELSE <<>>
    /\ reg_obs = [via |-> IF listener THEN "manager" ELSE "none",
                  chord |-> DefaultChord, failed |-> FALSE, listening |-> FALSE]

\* A configuration is present (lines 78-97): the listener is registered.
InitApp == InitAppState(TRUE)

-----------------------------------------------------------------------------
(* SpecCapture: get_selected_text called again and again, against a        *)
(* foreign application that copies text, copies nothing, or copies late.   *)

InitCaptureSpec ==
    /\ InitEnv(ClipboardTexts, SelectionTexts, 0..MaxRetriesArg)
    /\ InitCapture
    /\ InitSpam
    /\ InitChat
    /\ InitApp

NextCapture ==
    \/ \E n \in 0..MaxRetriesArg : CaptureDriver(n)
    \/ CaptureClear
    \/ CaptureChord
    \/ CaptureRead
    \/ CaptureRestore
    \/ CaptureFinal
    \/ AppCopy
    \/ \E s \in SelectionTexts, d \in 0..MaxRetriesArg : UserSelect(s, d)

SpecCapture == InitCaptureSpec /\ [][NextCapture]_vars

-----------------------------------------------------------------------------
(* Properties of get_selected_text (SpecCapture).                          *)

EmptyThenText ==
    /\ cap_pc = "returned"
    /\ max_retries = 2
    /\ cap_obs.delay = 1
    /\ cap_obs.sel # <<>>

\* C5 as stated (capture retry, for any pre-capture clipboard content):
\* get_selected_text(max_retries=2) returns the text of the second read,
\* with at most 2 copy chords.
C5_RetryAnyClipboard ==
    EmptyThenText => (cap_result = cap_obs.sel /\ cap_obs.chords <= 2)

\* C5 as amended: the same when the clipboard was empty before the capture;
\* the call then makes exactly the two reads "" and the text, with 2 chords.
C5_RetryEmptyClipboard ==
    (EmptyThenText /\ cap_obs.entry = <<>>) =>
        /\ cap_obs.reads = <<T_Empty, cap_obs.sel>>
        /\ cap_result = cap_obs.sel
        /\ cap_obs.chords = 2

\* The retry happened: an empty first read, the text on the second.
C5_Witness ==
    /\ EmptyThenText
    /\ cap_obs.entry = <<>>
    /\ cap_obs.reads = <<T_Empty, T_Sel>>
    /\ cap_result = T_Sel
    /\ cap_obs.chords = 2

-----------------------------------------------------------------------------
(* SpecSpam: check_trigger_spam called at arbitrary instants.              *)

InitSpamSpec ==
    /\ InitEnv({T_Orig}, {T_Sel}, {0})
    /\ InitCapture
    /\ InitSpam
    /\ InitChat
    /\ InitApp

NextSpam ==
    \/ SpamDriver
    \/ Tick(1)

SpecSpam == InitSpamSpec /\ [][NextSpam]_vars

Range(f) == {f[i] : i \in DOMAIN f}

\* The instants of the calls so far, and the values they returned.
SpamTimes == [i \in 1..Len(spam_log) |-> spam_log[i][1]]
SpamResults == [i \in 1..Len(spam_log) |-> spam_log[i][2]]

\* C9 (spam window): each call of check_trigger_spam appends the current
\* time, discards the timestamps older than TRIGGER_WINDOW relative to it,
\* and returns true iff at least MAX_TRIGGERS timestamps remain; calls at
\* 0.0, 0.5, 1.0 s return true on the third call, and calls at 0.0, 2.0,
\* 2.5 s return false every time.
C9_SpamWindow ==
    /\ spam_log # <<>> =>
        LET t == spam_log[Len(spam_log)][1]
            kept == SelectSeq(SpamTimes, LAMBDA x : t - x <= 15)
        IN  /\ recent_triggers = kept
            /\ spam_log[Len(spam_log)][2] = (Len(kept) >= 3)
    /\ SpamTimes = <<0, 5, 10>> => SpamResults = <<FALSE, FALSE, TRUE>>
    /\ SpamTimes = <<0, 20, 25>> => SpamResults = <<FALSE, FALSE, FALSE>>

\* Three calls within 1.5 s were made and the third reported spam.
C9_Witness ==
    spam_log = << <<0, FALSE>>, <<5, FALSE>>, <<10, TRUE>> >>

\* Three calls of which the first aged out before the third.
C9_WitnessAgedOut ==
    spam_log = << <<0, FALSE>>, <<20, FALSE>>, <<25, FALSE>> >>


-----------------------------------------------------------------------------
(* SpecReplace: operations that replace the selection in place, dispatched *)
(* one after the other, each running to completion, while saved chats are  *)
(* opened and closed.                                                      *)

\* What generate_content is made to return.
ReplaceResponses ==
    {T_Hello, T_HelloNL, T_Prefix, T_Spaced, ERROR_MESSAGE, T_PaddedSentinel, T_Empty}

InitReplaceSpec ==
    /\ InitEnv(ClipboardTexts, {T_Sel}, {0})
    /\ InitCapture
    /\ InitSpam
    /\ InitChat
    /\ InitApp

\* process_option("Proofread", ...) once every earlier request has finished.
ReplaceDispatch ==
    /\ UiIdle
    /\ \A i \in DOMAIN requests : requests[i].pc = "done"
    /\ ProcessOption("Proofread", selection, <<>>)
    /\ UNCHANGED <<app_running, hotkey_listener, close_requested, output_queue,
                   popup_window, ui_pc, ui_queue, hotkey_obs>>
    /\ UNCHANGED <<envVars, capVars, spamVars, chatVars, hookVars>>

NextReplace ==
    \/ ReplaceDispatch
    \/ OpenSavedChat
    \/ \E w \in 1..MaxWin : CloseWindow(w)
    \/ \E r \in 1..MaxReq :
        \/ OptionThreadStart(r)
        \/ GetResponseEnter(r)
        \/ \E text \in ReplaceResponses : ProviderResolve(r, text)
        \/ ProviderFail(r, E_Timeout)
        \/ ReplaceTextEnter(r)
        \/ ReplaceTextRoute(r)
        \/ ReplaceTextWrite(r)
        \/ ReplaceTextPaste(r)
        \/ ReplaceTextRestore(r)
        \/ ReplaceTextClear(r)
        \/ GetResponseFinally(r)

SpecReplace == InitReplaceSpec /\ [][NextReplace]_vars

\* The operations of a request's events, in order.
TraceOps(q) == [i \in 1..Len(q.trace) |-> q.trace[i][1]]

\* replace_text has run its tests on the output of request q.
Accumulated(q) == q.accumulated # <<>>

\* t without its whitespace is the first n characters of the sentinel.
SentinelPrefix(t, n) == RemoveWhitespace(t) = SubSeq(ERROR_MESSAGE, 1, n)

IncompatibleMessage == <<"msg", <<"The text is incompatible with the requested change.">>>>

\* C6 (sentinel prefix withholding): whenever the accumulated output,
\* ignoring whitespace, is a strict prefix of the sentinel and shorter than
\* it, replace_text returns without writing the clipboard and without a
\* paste chord.
C6_PrefixWithheld ==
    \A r \in DOMAIN requests :
        (/\ Accumulated(requests[r])
         /\ \E n \in 0..(Len(ERROR_MESSAGE) - 1) : SentinelPrefix(requests[r].accumulated, n))
        => /\ "write" \notin Range(TraceOps(requests[r]))
           /\ "paste" \notin Range(TraceOps(requests[r]))

\* C7 (sentinel detection): when the whitespace-stripped accumulated output
\* equals the sentinel exactly, replace_text emits the "text is incompatible
\* with the requested change" message, writes nothing to the clipboard and
\* issues no paste chord.
C7_SentinelDetected ==
    \A r \in DOMAIN requests :
        (Accumulated(requests[r]) /\ Strip(requests[r].accumulated) = ERROR_MESSAGE)
        => requests[r].trace = <<IncompatibleMessage>>

\* A request answered with the sentinel behind a blank has finished with
\* the message as its only event.
C7_Witness ==
    \E r \in DOMAIN requests :
        /\ requests[r].pc = "done"
        /\ requests[r].accumulated = T_PaddedSentinel
        /\ requests[r].trace = <<IncompatibleMessage>>
        /\ pasted = <<>>

\* C8 (replace delivery): with no response window current, an output that
\* is neither the sentinel nor a prefix of it is pasted exactly once, as it
\* is, in the order save clipboard, write output, paste chord, restore; when
\* replace_text returns the clipboard holds what it held before the call.
C8_ReplaceDelivery ==
    \A r \in DOMAIN requests :
        LET q == requests[r] IN
        (/\ q.pc \in {"finally", "done"}
         /\ Accumulated(q)
         /\ ~q.saw_window
         /\ Strip(q.accumulated) # ERROR_MESSAGE
         /\ ~\E n \in 0..Len(ERROR_MESSAGE) : SentinelPrefix(q.accumulated, n))
        => /\ q.trace = << <<"save", q.clipboard_backup>>, <<"write", q.accumulated>>,
                           <<"paste", q.accumulated>>, <<"restore", q.clipboard_backup>> >>
           /\ q.pc = "finally" => clipboard = q.clipboard_backup

\* "Hello world" was pasted once over a clipboard holding text, and
\* replace_text has just returned.
C8_Witness ==
    \E r \in DOMAIN requests :
        /\ requests[r].pc = "finally"
        /\ requests[r].accumulated = T_Hello
        /\ requests[r].trace = << <<"save", T_Orig>>, <<"write", T_Hello>>,
                                  <<"paste", T_Hello>>, <<"restore", T_Orig>> >>
        /\ pasted = <<T_Hello>>
        /\ clipboard = T_Orig


-----------------------------------------------------------------------------
(* Spec: the application.  The hotkey is pressed at any time, the popup's  *)
(* buttons are clicked, follow-up questions are sent from open windows and *)
(* windows are closed by the primary thread, while request threads run.    *)

\* What generate_content is made to return, and to raise.
MainResponses == {T_Hello}
MainErrors == {E_Timeout}

\* The options clicked in the popup.
MainOptions == {"Proofread", "Summary"}

\* Text is selected over a clipboard that holds text, or nothing is selected
\* and the clipboard is empty.
Init ==
    /\ InitEnv({T_Orig}, {T_Sel}, {0}) \/ InitEnv({T_Empty}, {T_Empty}, {0})
    /\ InitCapture
    /\ InitSpam
    /\ InitChat
    /\ InitApp

Next ==
    \/ OnHotkeyPressed
    \/ ShowPopupBegin
    \/ ShowPopupRetry
    \/ ShowPopupEnd
    \/ CaptureClear
    \/ CaptureChord
    \/ CaptureRead
    \/ CaptureRestore
    \/ CaptureFinal
    \/ AppCopy
    \/ \E option \in MainOptions : OnGenericInstruction(option)
    \/ OnCustomChange(T_Question)
    \/ \E w \in 1..MaxWin : SendMessage(w, T_Question)
    \/ QueuedSetText
    \/ QueuedFollowupResponse
    \/ \E w \in 1..MaxWin : CloseWindow(w)
    \/ \E r \in 1..MaxReq : ThreadStep(r, MainResponses, MainErrors)
    \/ ExitAppQuit

Spec == Init /\ [][Next]_vars


-----------------------------------------------------------------------------
(* Properties of cancellation and of the spam guard (Spec).                *)

\* C2 (stale result suppression): the output of a request whose provider
\* call was pending when a newer request was dispatched through the hotkey
\* and process_option is never pasted by replace_text and never set as the
\* text of a response window.
C2_StaleSuppressed ==
    \A r \in DOMAIN requests : ~(requests[r].superseded /\ requests[r].delivered)

\* C3 (cancellation ordering): once cancel() has been issued for a request
\* in flight, close_requested reads true when that request's provider call
\* resolves; no request's start or end resets it in between.
C3_CancelFlagSticks ==
    \A r \in DOMAIN requests :
        (requests[r].cancel_signalled /\ requests[r].resolved)
        => requests[r].flag_at_completion

\* The requests whose provider call is pending and that no cancel() was
\* issued for.
PendingUncancelled ==
    {r \in DOMAIN requests : Pending(requests[r]) /\ ~requests[r].cancel_signalled}

\* C4 (single in-flight request): at most one request started by
\* process_option or process_followup_question is pending without cancel()
\* having been issued for it.
C4_SingleInFlight == Cardinality(PendingUncancelled) <= 1

\* C10 (spam is fatal): an activation for which check_trigger_spam returns
\* true is inside exit_app or past it, the listener stopped and, once
\* exit_app is through, the application quit; the activation left
\* close_requested, the accumulator, the primary thread's queue, the count of
\* captures, the requests and the popup as it found them.
C10_SpamFatal ==
    hotkey_obs.spam =>
        /\ ~hotkey_listener
        /\ ui_pc \in {"exiting", "exited"}
        /\ ui_pc = "exited" => ~app_running
        /\ hotkey_obs.after = hotkey_obs.snapshot

\* The third activation was spam while a request nobody had cancelled was
\* waiting for the provider.
C10_Witness ==
    /\ hotkey_obs.spam
    /\ ~app_running
    /\ Len(spam_log) = MAX_TRIGGERS
    /\ ~close_requested
    /\ \E r \in DOMAIN requests :
        requests[r].pc = "provider" /\ ~requests[r].cancel_signalled


-----------------------------------------------------------------------------
(* SpecShutdown: the ways into exit_app.  With a configuration the         *)
(* listener runs and the hotkey, the tray menu and SIGINT are available;   *)
(* without one (onboarding) no listener is registered and closing the      *)
(* onboarding or provider-settings window exits.                           *)

InitShutdownSpec ==
    /\ InitEnv({T_Orig}, {T_Sel}, {0})
    /\ InitCapture
    /\ InitSpam
    /\ InitChat
    /\ \E listener \in BOOLEAN : InitAppState(listener)

NextShutdown ==
    \/ OnHotkeyPressed
    \/ ExitRequested
    \/ ExitAppQuit
    \/ Tick(1)

SpecShutdown == InitShutdownSpec /\ [][NextShutdown]_vars

\* C11 (shutdown ordering): on every path into exit_app the hotkey listener
\* is stopped before quit() is issued: from the moment exit_app has passed
\* stop_hotkey_listener, and in particular once the application has quit,
\* no listener is running.
C11_ListenerStoppedBeforeQuit ==
    (ui_pc \in {"exiting", "exited"} \/ ~app_running) => ~hotkey_listener

\* The application has quit through the tray menu or SIGINT after its
\* listener had delivered an activation.
C11_Witness ==
    /\ ui_pc = "exited"
    /\ ~app_running
    /\ ~hotkey_listener
    /\ spam_log # <<>>
    /\ ~hotkey_obs.spam


-----------------------------------------------------------------------------
(* SpecDispatch: process_option called with any operation, any captured    *)
(* text and with or without a custom instruction, one call after the       *)
(* other, each request running to completion.                              *)

\* The captured texts and the custom instructions (none, or a question).
DispatchTexts == {T_Empty, T_Blank, T_Sel}
DispatchCustoms == {T_Empty, T_Question}

InitDispatchSpec ==
    /\ InitEnv({T_Orig}, {T_Sel}, {0})
    /\ InitCapture
    /\ InitSpam
    /\ InitChat
    /\ InitApp

\* WritingToolApp.process_option (lines 319-323) once every earlier request
\* has finished.
DispatchDriver(option, text, custom) ==
    /\ UiIdle
    /\ \A i \in DOMAIN requests : requests[i].pc = "done"
    /\ ProcessOption(option, text, custom)
    /\ UNCHANGED <<app_running, hotkey_listener, close_requested, output_queue,
                   popup_window, ui_pc, ui_queue, hotkey_obs>>
    /\ UNCHANGED <<envVars, capVars, spamVars, chatVars, hookVars>>

NextDispatch ==
    \/ \E option \in {"Proofread", "Summary", "Custom"}, text \in DispatchTexts,
          custom \in DispatchCustoms : DispatchDriver(option, text, custom)
    \/ QueuedSetText
    \/ \E r \in 1..MaxReq :
        \/ OptionThreadStart(r)
        \/ GetResponseEnter(r)
        \/ ProviderResolve(r, T_Hello)
        \/ ReplaceTextEnter(r)
        \/ ReplaceTextRoute(r)
        \/ ReplaceTextWrite(r)
        \/ ReplaceTextPaste(r)
        \/ ReplaceTextRestore(r)
        \/ ReplaceTextClear(r)
        \/ GetResponseFinally(r)
        \/ OptionThreadDeliver(r)

SpecDispatch == InitDispatchSpec /\ [][NextDispatch]_vars

SelectTextMessage == <<"msg", <<"Please select text to use this option.">>>>

\* C12 (empty-selection routing for "Custom"): with empty captured text,
\* "Custom" without a custom instruction is rejected with a user-facing
\* message and no provider call; with a custom instruction a provider call
\* is dispatched whose prompt is that instruction.
C12_CustomRouting ==
    \A r \in DOMAIN requests :
        LET q == requests[r] IN
        (q.kind = "option" /\ q.option = "Custom" /\ Strip(q.text) = <<>>)
        => IF q.custom = <<>>
           THEN /\ ~q.provider_called
                /\ q.pc = "done" => \E i \in DOMAIN q.trace : q.trace[i][1] = "msg"
           ELSE /\ q.pc = "done" => q.provider_called
                /\ q.provider_called => q.prompt = q.custom

\* C13 (dispatch rejection): for every operation other than "Custom", a
\* dispatch with empty or whitespace-only captured text reports 'Please
\* select text to use this option.', makes no provider call and opens no
\* response window.
C13_DispatchRejected ==
    \A r \in DOMAIN requests :
        LET q == requests[r] IN
        (q.kind = "option" /\ q.option # "Custom" /\ Strip(q.text) = <<>>)
        => /\ ~q.provider_called
           /\ q.pc = "done" => q.trace = <<SelectTextMessage>>
           /\ q.win = 0


-----------------------------------------------------------------------------
(* Properties of delivery under concurrency (Spec).                        *)

\* C14 (WINDOW delivery): the output of a window-mode request is appended
\* as one assistant turn to the conversation of the window that was opened
\* for that request, whichever window is current when it is delivered, and
\* the request never touches the clipboard or the keyboard.
C14_WindowDelivery ==
    \A r \in DOMAIN requests :
        LET q == requests[r] IN
        (q.kind = "option" /\ WindowMode(q.option, q.text))
        => /\ Range(TraceOps(q)) \cap {"save", "write", "paste", "restore"} = {}
           /\ q.delivered_to # 0 => q.delivered_to = q.win

\* C15 (follow-up prompt assembly): under any interleaving, the prompt of a
\* follow-up in a window that stays open is the system instruction, then the
\* turns that were in the window's history before the question was added,
\* each with its role label, then the question once as the final user turn
\* and the assistant cue.
C15_FollowupPrompt ==
    \A r \in DOMAIN requests :
        LET q == requests[r] IN
        (q.kind = "followup" /\ q.prompt # <<>> /\ windows[q.win].open)
        => q.prompt = <<"system_instruction", "\n\n">>
                      \o ConversationTurns(q.prior)
                      \o <<"User: ">> \o q.custom \o <<"\n\nAssistant:">>


\* get_selected_text holds a clipboard backup it has not written back yet.
CaptureBracketOpen == cap_pc \in {"clear", "chord", "read", "restore"}

\* replace_text of request r holds a clipboard backup it has not written
\* back yet.
ReplaceBracketOpen(r) == requests[r].pc \in {"rt_write", "rt_paste", "rt_restore"}

\* C18 (no overlapping clipboard brackets): the save/restore bracket of
\* get_selected_text is never open while the save/restore bracket of
\* replace_text is open.
C18_NoBracketOverlap ==
    ~(CaptureBracketOpen /\ \E r \in DOMAIN requests : ReplaceBracketOpen(r))

\* C19 (pasted text integrity): every paste of replace_text writes the
\* newline-trimmed output of the request's own provider response, and the
\* accumulator replace_text tested for a request held that output alone.
C19_PasteIntegrity ==
    \A r \in DOMAIN requests :
        LET q == requests[r] IN
        /\ \A i \in DOMAIN q.trace :
              q.trace[i][1] = "paste" => q.trace[i][2] = RStripNewlines(q.response_text)
        /\ Accumulated(q) => q.accumulated = q.response_text


-----------------------------------------------------------------------------
(* Failing provider calls (SpecErrors): operations and follow-ups, one at  *)
(* a time, whose provider call raises.                                     *)

ErrorTexts == {E_Timeout, E_RateLimit, E_Safety, E_Invalid, E_Auth, E_Unavailable, E_Unknown}

InitErrorsSpec ==
    /\ InitEnv({T_Orig}, {T_Sel}, {0})
    /\ InitCapture
    /\ InitSpam
    /\ InitChat
    /\ InitApp

\* ResponseWindow.send_message once every earlier request has finished.
FollowupDriver(w) ==
    /\ \A i \in DOMAIN requests : requests[i].pc = "done"
    /\ ui_queue = <<>>
    /\ SendMessage(w, T_Question)

NextErrors ==
    \/ \E option \in {"Proofread", "Summary"} : DispatchDriver(option, T_Sel, <<>>)
    \/ \E w \in 1..MaxWin : FollowupDriver(w)
    \/ QueuedSetText
    \/ QueuedFollowupResponse
    \/ \E r \in 1..MaxReq :
        \/ OptionThreadStart(r)
        \/ FollowupThreadAdd(r)
        \/ FollowupThreadPrompt(r)
        \/ GetResponseEnter(r)
        \/ \E err \in ErrorTexts : ProviderFail(r, err)
        \/ GetResponseFinally(r)
        \/ OptionThreadDeliver(r)
        \/ FollowupThreadDeliver(r)

SpecErrors == InitErrorsSpec /\ [][NextErrors]_vars

\* TextOperationsManager line 182-183 and ConversationManager lines 80-81.
RateLimitMessage ==
    <<"Whoops! You've hit the per-minute rate limit of the Gemini API. Please try again in a few moments.\n\nIf this happens often, simply switch to a Gemini model with a higher usage limit in Settings.">>

\* The messages request q has emitted.
Messages(q) == {q.trace[i][2] : i \in {j \in DOMAIN q.trace : q.trace[j][1] = "msg"}}

\* C16 (rate-limit classification): when the provider call of a request
\* failed with an error text containing 'Resource has been exhausted', the
\* message shown for the request is the dedicated rate-limit message that
\* suggests switching to another model, and no other.
C16_RateLimitMessage ==
    \A r \in DOMAIN requests :
        LET q == requests[r] IN
        (\E i \in DOMAIN q.failure : q.failure[i] = "Resource has been exhausted")
        => Messages(q) = {RateLimitMessage}


\* C24 (provider failures are contained): after a failure of the provider
\* call of an operation request, of whatever class, a message has been
\* emitted for the request, its thread is on the way to its normal end
\* without having written the clipboard or sent a paste chord, and the
\* application and its hotkey listener are still running.
C24_FailureContained ==
    \A r \in DOMAIN requests :
        LET q == requests[r] IN
        (q.kind = "option" /\ q.failure # <<>>)
        => /\ Messages(q) # {}
           /\ Range(TraceOps(q)) \cap {"save", "write", "paste", "restore"} = {}
           /\ q.pc \in {"finally", "deliver", "done"}
           /\ pasted = <<>>
           /\ app_running /\ hotkey_listener

C24_Witness ==
    /\ \E r \in DOMAIN requests :
          /\ requests[r].option = "Proofread"
          /\ requests[r].failure = E_Unknown
          /\ requests[r].pc = "done"
    /\ \E r \in DOMAIN requests :
          /\ requests[r].option = "Summary"
          /\ requests[r].failure = E_RateLimit
          /\ requests[r].pc = "done"


\* C25 (assistant turns are genuine): every assistant turn of every
\* window's history holds the non-empty text a successful provider call
\* returned; a failed call adds no assistant turn.
C25_AssistantGenuine ==
    \A w \in DOMAIN windows :
        \A i \in DOMAIN windows[w].history :
            LET turn == windows[w].history[i] IN
            turn.role = "assistant"
            => /\ turn.content # <<>>
               /\ \E r \in DOMAIN requests :
                     /\ requests[r].resolved
                     /\ requests[r].response_text = turn.content


-----------------------------------------------------------------------------
(* A ChatMessageManager on its own (SpecChat): any sequence of calls of   *)
(* add_user_message, add_assistant_message and set_chat_history.           *)

MaxChatCalls == 4

T_Hi == <<"h", "i">>
T_HelloReply == <<"h", "e", "l", "l", "o">>
ChatMessages == {T_Hi, T_HelloReply}
ChatHistories == {<<>>, <<Turn("assistant", T_Hi)>>}

ChatFrame ==
    /\ Len(chat_calls) < MaxChatCalls
    /\ UNCHANGED <<envVars, capVars, spamVars, appVars, hookVars>>

ChatAddUser(message) ==
    /\ chat_history' = AddUserMessage(chat_history, message)
    /\ chat_calls' = Append(chat_calls, <<"user", message>>)
    /\ ChatFrame

ChatAddAssistant(message) ==
    /\ chat_history' = AddAssistantMessage(chat_history, message)
    /\ chat_calls' = Append(chat_calls, <<"assistant", message>>)
    /\ ChatFrame

ChatSetHistory(history) ==
    /\ chat_history' = SetChatHistory(history)
    /\ chat_calls' = Append(chat_calls, <<"set", history>>)
    /\ ChatFrame

InitChatSpec ==
    /\ InitEnv({T_Orig}, {T_Sel}, {0})
    /\ InitCapture
    /\ InitSpam
    /\ InitChat
    /\ InitApp

NextChat ==
    \/ \E message \in ChatMessages : ChatAddUser(message)
    \/ \E message \in ChatMessages : ChatAddAssistant(message)
    \/ \E history \in ChatHistories : ChatSetHistory(history)

SpecChat == InitChatSpec /\ [][NextChat]_vars

\* The position of the last set_chat_history call, 0 without one.
LastSet ==
    LET sets == {i \in DOMAIN chat_calls : chat_calls[i][1] = "set"}
    IN  IF sets = {} THEN 0 ELSE CHOOSE i \in sets : \A j \in sets : j <= i

\* The turns the calls ask for: those of the last history set, then one per
\* add call made since, in call order.
TurnsAsked ==
    (IF LastSet = 0 THEN <<>> ELSE chat_calls[LastSet][2])
    \o [i \in 1..(Len(chat_calls) - LastSet) |->
          Turn(chat_calls[LastSet + i][1], chat_calls[LastSet + i][2])]

\* C17 (conversation round trip): from an empty manager,
\* add_user_message("hi") then add_assistant_message("hello") makes
\* get_chat_history() return [user "hi", assistant "hello"]; in general it
\* returns the turns in append order; and right after set_chat_history([])
\* has_messages() is False.
C17_ChatRoundTrip ==
    /\ chat_calls = <<<<"user", T_Hi>>, <<"assistant", T_HelloReply>>>>
       => GetChatHistory(chat_history)
            = <<Turn("user", T_Hi), Turn("assistant", T_HelloReply)>>
    /\ GetChatHistory(chat_history) = TurnsAsked
    /\ (LastSet # 0 /\ LastSet = Len(chat_calls) /\ chat_calls[LastSet][2] = <<>>)
       => ~HasMessages(chat_history)

C17_Witness ==
    /\ chat_calls = <<<<"user", T_Hi>>, <<"assistant", T_HelloReply>>>>
    /\ Len(GetChatHistory(chat_history)) = 2
    /\ HasMessages(chat_history)


-----------------------------------------------------------------------------
(* The accumulator between sequential requests (SpecReplace).              *)

\* C20 (accumulator lifecycle): output_queue is empty once a request has
\* started, until its response arrives, and is empty again after a completed
\* replace-in-place delivery, both after the paste and after the sentinel
\* message.
C20_AccumulatorLifecycle ==
    \A r \in DOMAIN requests :
        LET q == requests[r] IN
        /\ q.pc \in {"get_response", "provider"} => output_queue = <<>>
        /\ (/\ q.pc = "done"
            /\ r = Len(requests)
            /\ ~q.saw_window
            /\ Range(q.trace) \cap {IncompatibleMessage, Event("paste", q.response_text)} # {})
           => output_queue = <<>>


-----------------------------------------------------------------------------
(* Order of the steps of a hotkey activation (Spec).                       *)

\* The step starts _show_popup and with it the first get_selected_text.
CaptureStarts == ui_pc = "idle" /\ ui_pc' = "popup1"

\* The step is a process_option call.
DispatchStarts ==
    /\ Len(requests') = Len(requests) + 1
    /\ requests'[Len(requests')].kind = "option"

\* C21 (activation ordering): the capture of a hotkey activation starts only
\* after check_trigger_spam has returned for that activation, without
\* detecting spam, and a dispatch starts only when no capture is running and
\* uses the text a completed capture left in the popup.
C21_ActivationOrdering ==
    [][/\ CaptureStarts =>
            /\ Head(ui_queue).req \in 1..Len(spam_log)
            /\ ~spam_log[Head(ui_queue).req][2]
            /\ cap_pc = "idle"
       /\ DispatchStarts =>
            /\ ui_pc = "idle"
            /\ cap_pc = "idle"
            /\ popup_window # <<>>
            /\ requests'[Len(requests')].text = popup_window[1]]_vars

C21_Witness ==
    /\ \E r \in DOMAIN requests :
          requests[r].kind = "option" /\ requests[r].text = T_Sel
    /\ Len(spam_log) >= 2
    /\ cap_obs.calls >= 2


\* get_selected_text has been entered and has not returned.
CaptureRunning == cap_pc \in {"clear", "chord", "read", "restore", "final"}

\* C30 (capture thread affinity): whenever get_selected_text is running for
\* a hotkey activation, it is not the primary thread that runs it: the
\* primary thread is not inside _show_popup and is free to serve its queue.
C30_CaptureOffPrimaryThread ==
    CaptureRunning => ui_pc \notin {"popup1", "popup2"}


-----------------------------------------------------------------------------
(* Conversations of several windows (Spec).                                *)

\* The step serves a queued follow-up response.
FollowupResponseServed ==
    /\ ui_queue # <<>>
    /\ Head(ui_queue).kind = "followup_response"
    /\ ui_queue' = Tail(ui_queue)

OpenWindows == {w \in DOMAIN windows : windows[w].open}

\* C22 (follow-up routing): with two or more response windows open, the
\* response to a follow-up asked in window W is rendered once, in W, and no
\* other open window's history or display changes.
C22_FollowupRouting ==
    [][(FollowupResponseServed /\ Cardinality(OpenWindows) >= 2) =>
          LET W == Head(ui_queue).win IN
          /\ \A w \in OpenWindows \ {W} :
                /\ windows'[w].history = windows[w].history
                /\ windows'[w].shown = windows[w].shown
          /\ Len(windows'[W].shown) <= Len(windows[W].shown) + 1]_vars

\* Every request has run to its end and the primary thread has served what
\* was queued for it.
Quiescent ==
    /\ \A r \in DOMAIN requests : requests[r].pc = "done"
    /\ ui_queue = <<>>

\* history starts with a user turn and alternates.
Alternates(history) ==
    \A i \in DOMAIN history :
        history[i].role = IF i % 2 = 1 THEN "user" ELSE "assistant"

\* C23 (conversation turn ordering): when no provider call failed, once
\* every question asked in a response window has been answered the window's
\* history alternates user, assistant, each question before its answer, also
\* when a follow-up was sent before the window's first response had arrived.
C23_TurnOrdering ==
    (/\ Quiescent
     /\ \A r \in DOMAIN requests : requests[r].failure = <<>>)
    => \A w \in OpenWindows : Alternates(windows[w].history)


-----------------------------------------------------------------------------
(* Delivery of every response (SpecReplace, Spec).                         *)

\* C26 (eventual replace delivery): without a newer hotkey activation, a
\* successful response to a replace-in-place request that is neither blank
\* nor the complete sentinel has been pasted by the time the request's
\* thread ends, also when the response is a prefix of the sentinel.
C26_ReplaceDelivered ==
    \A r \in DOMAIN requests :
        LET q == requests[r] IN
        (/\ q.pc = "done"
         /\ q.resolved
         /\ ~q.saw_window
         /\ Strip(q.response_text) # <<>>
         /\ Strip(q.response_text) # ERROR_MESSAGE)
        => "paste" \in Range(TraceOps(q))

\* C27 (window result liveness): the result of a window-mode request after
\* which no other operation was dispatched is rendered in the window opened
\* for it, once its thread has ended and the queued calls are served, as
\* long as that window is open; closing another window does not prevent it.
C27_WindowResultRendered ==
    \A r \in DOMAIN requests :
        LET q == requests[r] IN
        (/\ q.kind = "option" /\ WindowMode(q.option, q.text)
         /\ Quiescent
         /\ q.resolved /\ Strip(q.response_text) # <<>>
         /\ \A later \in DOMAIN requests :
               later > r => requests[later].kind = "followup"
         /\ windows[q.win].open)
        => q.delivered_to = q.win


-----------------------------------------------------------------------------
(* Registration of the global hotkey (SpecHotkey): start-up, the settings  *)
(* window, hotkey presses and exit.                                        *)

Chords == {DefaultChord, "ctrl+alt+h", "ctrl+"}

\* pykeyboard.HotKey.parse raises for the chord (HotkeyManager line 47).
Malformed(chord) == chord = "ctrl+"

\* HotkeyManager.start_hotkey_listener (lines 30-62): the listener held is
\* stopped, the chord is parsed, a listener is created and started; an
\* exception on the way is logged.  os_ok: creating and starting succeed.
HotkeyManagerStart(os_ok) ==
    LET ok == ~Malformed(shortcut) /\ os_ok IN
    /\ hooks' = IF ok THEN Append(StopListener, shortcut) ELSE StopListener
    /\ hotkey_listener' = ok
    /\ reg_obs' = [via |-> "manager", chord |-> shortcut, failed |-> ~ok,
                   listening |-> hotkey_listener]

\* WritingToolApp.start_hotkey_listener (lines 188-220): the application
\* object has no hotkey_listener attribute, line 197 raises AttributeError
\* inside the try and line 220 logs it.
AppStartHotkeyListener(chord) ==
    /\ reg_obs' = [via |-> "app", chord |-> chord, failed |-> TRUE,
                   listening |-> hotkey_listener]
    /\ UNCHANGED <<hooks, hotkey_listener>>

\* WritingToolApp.__init__ lines 96-97 with a configuration present:
\* hotkey_manager.register_hotkey().
Startup(os_ok) ==
    /\ UiIdle
    /\ reg_obs.via = "none"
    /\ HotkeyManagerStart(os_ok)
    /\ UNCHANGED <<app_running, close_requested, output_queue,
                   current_response_window, popup_window, ui_pc, windows,
                   ui_queue, requests, hotkey_obs, shortcut>>
    /\ UNCHANGED <<envVars, capVars, spamVars, chatVars>>

\* SettingsWindow.save_settings (lines 170-191): the chord typed becomes
\* config["shortcut"] (in the first-run flow OnboardingWindow line 98 has
\* stored it) and app.register_hotkey() is called.
SaveSettings(chord) ==
    /\ UiIdle
    /\ shortcut' = chord
    /\ AppStartHotkeyListener(chord)
    /\ UNCHANGED <<app_running, close_requested, output_queue,
                   current_response_window, popup_window, ui_pc, windows,
                   ui_queue, requests, hotkey_obs>>
    /\ UNCHANGED <<envVars, capVars, spamVars, chatVars>>

InitHotkeySpec ==
    /\ InitEnv({T_Orig}, {T_Sel}, {0})
    /\ InitCapture
    /\ InitSpam
    /\ InitChat
    /\ app_running = TRUE
    /\ hotkey_listener = FALSE
    /\ close_requested = FALSE
    /\ output_queue = <<>>
    /\ current_response_window = NoWindow
    /\ popup_window = <<>>
    /\ ui_pc = "idle"
    /\ windows = <<>>
    /\ ui_queue = <<>>
    /\ requests = <<>>
    /\ hotkey_obs = [spam |-> FALSE, snapshot |-> <<>>, after |-> <<>>]
    /\ shortcut \in Chords
    /\ hooks = <<>>
    /\ reg_obs = [via |-> "none", chord |-> shortcut, failed |-> FALSE,
                  listening |-> FALSE]

NextHotkey ==
    \/ \E os_ok \in BOOLEAN : Startup(os_ok)
    \/ \E chord \in Chords : SaveSettings(chord)
    \/ OnHotkeyPressed
    \/ Tick(1)
    \/ ExitRequested
    \/ ExitAppQuit

SpecHotkey == InitHotkeySpec /\ [][NextHotkey]_vars

\* C28 (no duplicate hooks): at most one global hotkey listener is active,
\* and after a re-registration, made while a listener was running, for a
\* well-formed chord the active listener is the one for that chord.
C28_SingleCurrentListener ==
    /\ Len(hooks) <= 1
    /\ (UiIdle /\ reg_obs.listening /\ ~Malformed(reg_obs.chord))
       => hooks = <<reg_obs.chord>>

\* C29 (registration failure): after a registration for a malformed chord
\* has failed the application is still running and no listener is active,
\* none for a previous chord either.
C29_FailureUnregisters ==
    (reg_obs.failed /\ Malformed(reg_obs.chord) /\ ui_pc = "idle")
    => /\ app_running
       /\ hooks = <<>>
       /\ ~hotkey_listener

=============================================================================
